---- MODULE Spec2Model ----
(***************************************************************************)
(* Model of shared/tcp/tcp_timeouts.go (ExtractConn, SetTimeouts) and of   *)
(* the expired-token housekeeping task (autoRemoveExpiredTokens).          *)
(*                                                                         *)
(* A socket is the kernel-side option state of one *net.TCPConn; a handle  *)
(* is the identity of that *net.TCPConn, modelled by the socket's id.      *)
(* Durations are in seconds.                                               *)
(*                                                                         *)
(* SetTimeouts holds no lock, so its three socket-option calls are three   *)
(* separate steps that calls by other callers can come between.  opRun     *)
(* runs in the housekeeping operation's own goroutine, one Cancel at a     *)
(* time, while autoRemoveExpiredTokens waits for it.                       *)
(***************************************************************************)
EXTENDS Integers, Sequences, FiniteSets, TLC

VARIABLES
  \* shared/tcp
  platform,        \* the platform the program was built for
  sock,            \* socket id -> option state of the OS socket
  pc,              \* caller -> position in ExtractConn / SetTimeouts
  arg,             \* caller -> the net.Conn passed to ExtractConn
  res,             \* caller -> what ExtractConn produced
  hnd,             \* caller -> the *net.TCPConn passed to SetTimeouts
  ret,             \* caller -> the error returned by SetTimeouts
  trace,           \* caller -> the steps SetTimeouts attempted, with results
  before,          \* caller -> option state of the handle's socket when
                   \*           SetTimeouts was entered
  overlap,         \* a step of one call ran while another call was in
                   \* progress on the same handle
  \* expired-token housekeeping
  registry,        \* operation id -> operation (operations.Clone())
  now,             \* time.Now()
  scanTime,        \* value of time.Now() when the registry was filtered
  tpc,             \* position in autoRemoveExpiredTokens
  expiredTokenOps, \* the slice of the same name
  created,         \* number of RemoveExpiredTokens operations created
  hk,              \* status of the housekeeping operation
  attempts,        \* the Cancel calls made by opRun, with results
  opRunRet,        \* what opRun returned
  tret             \* what autoRemoveExpiredTokens returned

tcpVars == <<platform, sock, pc, arg, res, hnd, ret, trace, before, overlap>>

tokenVars == <<registry, now, scanTime, tpc, expiredTokenOps, created, hk,
               attempts, opRunRet, tret>>

vars == <<platform, sock, pc, arg, res, hnd, ret, trace, before, overlap,
          registry, now, scanTime, tpc, expiredTokenOps, created, hk,
          attempts, opRunRet, tret>>

(***************************************************************************)
(* Bounds.                                                                 *)
(***************************************************************************)
\* The sockets: the one a caller configures and a bystander.
SockIds == {1, 2}

\* The callers; at least two so that invocations can overlap on one handle.
NumProcs == 2

Procs == 1 .. NumProcs

\* The nil pointer / absent handle.
NoSock == 0

(***************************************************************************)
(* Program constants of SetTimeouts.                                       *)
(***************************************************************************)
\* Faulty variant: the duration taken in milliseconds.
UserTimeoutSecsMut == 30 * 1000

\* SetUserTimeout(conn, time.Second*30)
UserTimeoutSecs == 30

\* conn.SetKeepAlivePeriod(3 * time.Second)

KeepAlivePeriodSecs == 3

\* Option values a socket can hold before it is configured: the kernel
\* defaults (no user timeout, keepalive off), Go's default keepalive period
\* of 15 s, and the values SetTimeouts writes.
UserTimeoutValues == {0, UserTimeoutSecs}

KeepAlivePeriodValues == {KeepAlivePeriodSecs, 15}

SockStates ==
  [userTimeout : UserTimeoutValues, keepAlive : BOOLEAN,
   keepAlivePeriod : KeepAlivePeriodValues]

(***************************************************************************)
(* Connection values (net.Conn interface values).                          *)
(*   type      dynamic type of the interface value; "nil" is the nil       *)
(*             interface                                                   *)
(*   isNil     the value is a nil pointer of type *tls.Conn                *)
(*   innerType dynamic type held by the private field tls.Conn.conn        *)
(*   sock      the socket of the *net.TCPConn (own or inner), or NoSock    *)
(***************************************************************************)
InnerNonTCP == {"nil", "UnixConn", "tls.Conn"}

Conns ==
  {[type |-> "nil", isNil |-> FALSE, innerType |-> "none", sock |-> NoSock],
   [type |-> "UnixConn", isNil |-> FALSE, innerType |-> "none", sock |-> NoSock],
   [type |-> "tls.Conn", isNil |-> TRUE, innerType |-> "none", sock |-> NoSock]}
  \cup {[type |-> "TCPConn", isNil |-> FALSE, innerType |-> "none", sock |-> s] :
          s \in SockIds}
  \cup {[type |-> "tls.Conn", isNil |-> FALSE, innerType |-> "TCPConn", sock |-> s] :
          s \in SockIds}
  \cup {[type |-> "tls.Conn", isNil |-> FALSE, innerType |-> t, sock |-> NoSock] :
          t \in InnerNonTCP}

NoConn == [type |-> "nil", isNil |-> FALSE, innerType |-> "none", sock |-> NoSock]

(***************************************************************************)
(* ExtractConn.                                                            *)
(***************************************************************************)
ErrNotTLS == "Connection is not a tls.Conn"

ErrNotTCP == "Connection is not a net.TCPConn"

NoErr == "nil"

\* Faulty variant: every non-nil connection passes for a *tls.Conn.
IsTLSConnMut(c) == c.type # "nil"

\* The type assertion of conn to *tls.Conn: ok iff that is the dynamic type
\* (a nil interface has no dynamic type; a typed nil pointer still matches).
IsTLSConn(c) == c.type = "tls.Conn"

\* reflect.ValueOf(tlsConn).Elem().FieldByName("conn"): Elem of a nil
\* pointer is the zero Value, on which FieldByName panics.
ReflectPanics(c) == c.isNil

\* Faulty variant: every non-nil inner connection passes for a *net.TCPConn.
IsTCPConnMut(c) == c.innerType # "nil"

\* The type assertion of the private field's value to *net.TCPConn.
IsTCPConn(c) == c.innerType = "TCPConn"

\* Faulty variant: a *net.TCPConn other than the one the connection owns.
CopyOf(s) == 3 - s

InnerHandleMut(c) == CopyOf(c.sock)

\* The *net.TCPConn returned: the very pointer stored in the field.
InnerHandle(c) == c.sock

ExtractConn(c) ==
  IF ~IsTLSConn(c)
    THEN [outcome |-> "returned", handle |-> NoSock, err |-> ErrNotTLS]
  ELSE IF ReflectPanics(c)
    THEN [outcome |-> "panic", handle |-> NoSock, err |-> NoErr]
  ELSE IF ~IsTCPConn(c)
    THEN [outcome |-> "returned", handle |-> NoSock, err |-> ErrNotTCP]
  ELSE [outcome |-> "returned", handle |-> InnerHandle(c), err |-> NoErr]

NoRes == [outcome |-> "none", handle |-> NoSock, err |-> NoErr]

(***************************************************************************)
(* SetTimeouts.                                                            *)
(***************************************************************************)
Steps == <<"userTimeout", "keepAlive", "keepAlivePeriod">>

\* The OS error of a rejected setsockopt, e.g. on a closed socket.
Errnos == {"EBADF"}

\* The nil error, and the return value of a call that has not returned.
Nil == [op |-> "nil", errno |-> "nil"]

Pending == [op |-> "pending", errno |-> "pending"]

\* Errors of net.TCPConn.SetKeepAlive and SetKeepAlivePeriod: both are
\* &net.OpError{Op: "set", ..., Err: os.NewSyscallError("setsockopt", errno)}.
NetErrors == {[op |-> "set", errno |-> e] : e \in Errnos}

\* Errors of SetUserTimeout, kept apart from those of the net package.
UserTimeoutErrors == {[op |-> "SetUserTimeout", errno |-> e] : e \in Errnos}

\* What SetUserTimeout can return on platform pf: the option can be
\* rejected only where it exists.
UserTimeoutResults(pf) ==
  IF pf = "linux" THEN {Nil} \cup UserTimeoutErrors ELSE {Nil}

StepErrors(step) ==
  IF step = "userTimeout" THEN UserTimeoutErrors ELSE NetErrors

\* Platforms with the user-timeout socket option (TCP_USER_TIMEOUT) and
\* platforms without it.
Platforms == {"linux", "other"}

\* SetUserTimeout(conn, d) on platform pf: applies d as the socket's
\* unacknowledged-data timeout where the platform has the option, and does
\* nothing where it has not.
SetUserTimeout(s, d, pf) ==
  IF pf = "linux" THEN [s EXCEPT !.userTimeout = d] ELSE s

\* conn.SetKeepAlive(b)
SetKeepAlive(s, b) == [s EXCEPT !.keepAlive = b]

\* conn.SetKeepAlivePeriod(d)
SetKeepAlivePeriod(s, d) == [s EXCEPT !.keepAlivePeriod = d]

\* Faulty variant: the error wrapped with the name of the step.
ReturnOfMut(step, e) == IF e = Nil THEN Nil ELSE [op |-> step, errno |-> e.errno]

\* What SetTimeouts returns when a step yields e: "return err".
ReturnOf(step, e) == e

\* Faulty variant: the error of conn.SetKeepAlive is not looked at.
AfterStepMut(step, e) ==
  IF step = "userTimeout" THEN (IF e # Nil THEN "done" ELSE "keepAlive")
  ELSE IF step = "keepAlive" THEN "keepAlivePeriod"
  ELSE "done"

\* Where SetTimeouts goes after a step that yields e: "if err != nil
\* { return err }", else the next step, and "return nil" after the last.
AfterStep(step, e) ==
  IF e # Nil THEN "done"
  ELSE IF step = "userTimeout" THEN "keepAlive"
  ELSE IF step = "keepAlive" THEN "keepAlivePeriod"
  ELSE "done"

InCall(q) == pc[q] \in {"keepAlive", "keepAlivePeriod"}

Overlaps(p, h) == \E q \in Procs \ {p} : InCall(q) /\ hnd[q] = h

\* Bookkeeping common to the three steps of SetTimeouts.
Record(p, h, step, e) ==
  /\ pc' = [pc EXCEPT ![p] = AfterStep(step, e)]
  /\ hnd' = [hnd EXCEPT ![p] = h]
  /\ trace' = [trace EXCEPT ![p] = Append(@, [step |-> step, err |-> e])]
  /\ ret' = [ret EXCEPT ![p] =
               IF AfterStep(step, e) = "done" THEN ReturnOf(step, e) ELSE @]
  /\ before' = [before EXCEPT ![p] = IF step = "userTimeout" THEN sock[h] ELSE @]
  /\ overlap' = (overlap \/ Overlaps(p, h))
  /\ UNCHANGED <<platform, arg, res>>
  /\ UNCHANGED tokenVars

(***************************************************************************)
(* Actions of shared/tcp.                                                  *)
(***************************************************************************)
\* A caller passes the connection c to ExtractConn.
CallExtractConn(p, c) ==
  /\ pc[p] = "idle"
  /\ arg' = [arg EXCEPT ![p] = c]
  /\ res' = [res EXCEPT ![p] = ExtractConn(c)]
  /\ pc' = [pc EXCEPT ![p] =
              IF ExtractConn(c).outcome = "panic" THEN "panicked"
              ELSE "extracted"]
  /\ UNCHANGED <<platform, sock, hnd, ret, trace, before, overlap>>
  /\ UNCHANGED tokenVars

\* SetTimeouts is entered with the handle h that ExtractConn returned; its
\* first step is SetUserTimeout(conn, time.Second*30).
UserTimeoutStep(p, h, e) ==
  /\ pc[p] = "extracted"
  /\ res[p].err = NoErr
  /\ h = res[p].handle
  /\ sock' = IF e = Nil
               THEN [sock EXCEPT ![h] = SetUserTimeout(@, UserTimeoutSecs, platform)]
               ELSE sock
  /\ Record(p, h, "userTimeout", e)

\* Faulty variant: keepalive is toggled instead of switched on.
EnableKeepAliveMut(s) == SetKeepAlive(s, ~s.keepAlive)

\* The write of the second step: conn.SetKeepAlive(true)
EnableKeepAlive(s) == SetKeepAlive(s, TRUE)

\* Second step of SetTimeouts.
KeepAliveStep(p, e) ==
  /\ pc[p] = "keepAlive"
  /\ sock' = IF e = Nil
               THEN [sock EXCEPT ![hnd[p]] = EnableKeepAlive(@)]
               ELSE sock
  /\ Record(p, hnd[p], "keepAlive", e)

\* conn.SetKeepAlivePeriod(3 * time.Second)
KeepAlivePeriodStep(p, e) ==
  /\ pc[p] = "keepAlivePeriod"
  /\ sock' = IF e = Nil
               THEN [sock EXCEPT ![hnd[p]] =
                       SetKeepAlivePeriod(@, KeepAlivePeriodSecs)]
               ELSE sock
  /\ Record(p, hnd[p], "keepAlivePeriod", e)

TcpInit ==
  /\ platform \in Platforms
  /\ sock \in [SockIds -> SockStates]
  /\ pc = [p \in Procs |-> "idle"]
  /\ arg = [p \in Procs |-> NoConn]
  /\ res = [p \in Procs |-> NoRes]
  /\ hnd = [p \in Procs |-> NoSock]
  /\ ret = [p \in Procs |-> Pending]
  /\ trace = [p \in Procs |-> <<>>]
  /\ before = [p \in Procs |-> sock[1]]
  /\ overlap = FALSE

\* A step of a call of SetTimeouts by caller p.
SetTimeouts(p) ==
  \/ \E h \in SockIds, e \in UserTimeoutResults(platform) :
       UserTimeoutStep(p, h, e)
  \/ \E e \in {Nil} \cup NetErrors : KeepAliveStep(p, e)
  \/ \E e \in {Nil} \cup NetErrors : KeepAlivePeriodStep(p, e)

TcpNext ==
  \E p \in Procs :
    \/ \E c \in Conns : CallExtractConn(p, c)
    \/ SetTimeouts(p)

(***************************************************************************)
(* Expired-token housekeeping: autoRemoveExpiredTokens.                    *)
(***************************************************************************)
NumOps == 2

MaxTime == 2

OpIds == 1 .. NumOps

Times == 0 .. MaxTime

OpTypes == {"ClusterJoinToken", "CertificateAddToken", "RemoveExpiredTokens"}

\* op.Metadata()["expiresAt"]: missing, a value that is not a time.Time,
\* or a time.Time.
ExpiresAtValues ==
  {[kind |-> "absent", at |-> 0], [kind |-> "string", at |-> 0]}
  \cup {[kind |-> "time", at |-> t] : t \in Times}

Operations == [type : OpTypes, expiresAt : ExpiresAtValues, status : {"running"}]

\* "if op.Type() != ClusterJoinToken && op.Type() != CertificateAddToken
\* { continue }"
IsTokenOp(o) ==
  ~(o.type # "ClusterJoinToken" /\ o.type # "CertificateAddToken")

\* Faulty variant: an operation expiring right now counts as expired.
HasExpiredMut(o, t) == o.expiresAt.kind = "time" /\ t >= o.expiresAt.at

\* expiry, ok := op.Metadata()["expiresAt"].(time.Time);
\* ok && time.Now().After(expiry)
HasExpired(o, t) == o.expiresAt.kind = "time" /\ t > o.expiresAt.at

\* The loop over operations.Clone(), visiting the operations in the order
\* given (Go leaves the iteration order of a map unspecified).
RECURSIVE FilterExpired(_, _, _)
FilterExpired(order, reg, t) ==
  IF order = <<>> THEN <<>>
  ELSE LET op == reg[Head(order)]
           rest == FilterExpired(Tail(order), reg, t)
       IN IF ~IsTokenOp(op) THEN rest
          ELSE IF HasExpired(op, t) THEN <<Head(order)>> \o rest
          ELSE rest

\* The orders in which a map of the operations can be iterated.
Orders ==
  {o \in [1 .. NumOps -> OpIds] : \A i, j \in 1 .. NumOps : i # j => o[i] # o[j]}

\* Lines 75-93: build expiredTokenOps and return nil when it is empty.
Scan(order) ==
  /\ tpc = "idle"
  /\ scanTime' = now
  /\ expiredTokenOps' = FilterExpired(order, registry, now)
  /\ IF Len(FilterExpired(order, registry, now)) = 0
       THEN tpc' = "returned" /\ tret' = "nil"
       ELSE tpc' = "create" /\ tret' = tret
  /\ UNCHANGED <<registry, now, created, hk, attempts, opRunRet>>
  /\ UNCHANGED tcpVars

\* Lines 106-110: operations.OperationCreate(...), which may fail.
OperationCreate(ok) ==
  /\ tpc = "create"
  /\ IF ok
       THEN /\ created' = created + 1
            /\ hk' = "pending"
            /\ tpc' = "start"
            /\ tret' = tret
       ELSE /\ tpc' = "returned"
            /\ tret' = "create failed"
            /\ UNCHANGED <<created, hk>>
  /\ UNCHANGED <<registry, now, scanTime, expiredTokenOps, attempts, opRunRet>>
  /\ UNCHANGED tcpVars

\* Lines 114-118: op.Start(), which runs opRun on success.
Start(ok) ==
  /\ tpc = "start"
  /\ IF ok
       THEN hk' = "running" /\ tpc' = "wait" /\ tret' = tret
       ELSE hk' = hk /\ tpc' = "returned" /\ tret' = "start failed"
  /\ UNCHANGED <<registry, now, scanTime, expiredTokenOps, created, attempts,
                 opRunRet>>
  /\ UNCHANGED tcpVars

\* Faulty variant: opRun gives up at the first Cancel that fails.
ContinueAfterMut(ok) == ok

\* What opRun does after a Cancel that yields ok: log and go on.
ContinueAfter(ok) == TRUE

\* Lines 96-101: one iteration of opRun's loop, op.Cancel() on the next
\* expired token operation; a failure is logged and the loop goes on.
OpRunCancel(ok) ==
  /\ hk = "running"
  /\ Len(attempts) < Len(expiredTokenOps)
  /\ LET id == expiredTokenOps[Len(attempts) + 1]
     IN /\ attempts' = Append(attempts, [id |-> id, ok |-> ok])
        /\ registry' = IF ok
                         THEN [registry EXCEPT ![id].status = "cancelled"]
                         ELSE registry
  /\ IF ContinueAfter(ok)
       THEN UNCHANGED <<hk, opRunRet>>
       ELSE hk' = "failure" /\ opRunRet' = "cancel failed"
  /\ UNCHANGED <<now, scanTime, tpc, expiredTokenOps, created, tret>>
  /\ UNCHANGED tcpVars

\* Line 103: opRun returns nil once the loop is over.
OpRunReturn ==
  /\ hk = "running"
  /\ Len(attempts) = Len(expiredTokenOps)
  /\ hk' = "success"
  /\ opRunRet' = "nil"
  /\ UNCHANGED <<registry, now, scanTime, tpc, expiredTokenOps, created,
                 attempts, tret>>
  /\ UNCHANGED tcpVars

\* Lines 120-124: op.Wait(ctx) returns when the operation is over or when
\* ctx is done, its result is dropped, and nil is returned.
Wait(ctxDone) ==
  /\ tpc = "wait"
  /\ ctxDone \/ hk \in {"success", "failure"}
  /\ tpc' = "returned"
  /\ tret' = "nil"
  /\ UNCHANGED <<registry, now, scanTime, expiredTokenOps, created, hk,
                 attempts, opRunRet>>
  /\ UNCHANGED tcpVars

\* Time passes.
Tick ==
  /\ now < MaxTime
  /\ now' = now + 1
  /\ UNCHANGED <<registry, scanTime, tpc, expiredTokenOps, created, hk,
                 attempts, opRunRet, tret>>
  /\ UNCHANGED tcpVars

TokenInit ==
  /\ registry \in [OpIds -> Operations]
  /\ now \in Times
  /\ scanTime = 0
  /\ tpc = "idle"
  /\ expiredTokenOps = <<>>
  /\ created = 0
  /\ hk = "none"
  /\ attempts = <<>>
  /\ opRunRet = "none"
  /\ tret = "none"

\* A step of the closure opRun.
opRun ==
  \/ \E ok \in BOOLEAN : OpRunCancel(ok)
  \/ OpRunReturn

\* A step of autoRemoveExpiredTokens.
autoRemoveExpiredTokens ==
  \/ \E order \in Orders : Scan(order)
  \/ \E ok \in BOOLEAN : OperationCreate(ok)
  \/ \E ok \in BOOLEAN : Start(ok)
  \/ \E ctxDone \in BOOLEAN : Wait(ctxDone)

TokenNext ==
  \/ autoRemoveExpiredTokens
  \/ opRun
  \/ Tick

(***************************************************************************)
(* Specifications.  Spec runs the callers of shared/tcp with the           *)
(* housekeeping task at rest; TokenSpec runs one round of the housekeeping *)
(* task with no caller of shared/tcp.                                      *)
(***************************************************************************)
TokenAtRest ==
  /\ registry = [i \in OpIds |->
                   [type |-> "ClusterJoinToken",
                    expiresAt |-> [kind |-> "absent", at |-> 0],
                    status |-> "running"]]
  /\ now = 0
  /\ scanTime = 0
  /\ tpc = "idle"
  /\ expiredTokenOps = <<>>
  /\ created = 0
  /\ hk = "none"
  /\ attempts = <<>>
  /\ opRunRet = "none"
  /\ tret = "none"

TcpAtRest ==
  /\ platform = "linux"
  /\ sock = [s \in SockIds |->
               [userTimeout |-> 0, keepAlive |-> FALSE, keepAlivePeriod |-> 15]]
  /\ pc = [p \in Procs |-> "idle"]
  /\ arg = [p \in Procs |-> NoConn]
  /\ res = [p \in Procs |-> NoRes]
  /\ hnd = [p \in Procs |-> NoSock]
  /\ ret = [p \in Procs |-> Pending]
  /\ trace = [p \in Procs |-> <<>>]
  /\ before = [p \in Procs |-> sock[1]]
  /\ overlap = FALSE

Init == TcpInit /\ TokenAtRest

Next == TcpNext

Spec == Init /\ [][Next]_vars

TokenSpecInit == TcpAtRest /\ TokenInit

TokenSpecNext == TokenNext

TokenSpec == TokenSpecInit /\ [][TokenSpecNext]_vars

(***************************************************************************)
(* Properties of shared/tcp, checked under Spec.                           *)
(***************************************************************************)
\* What a socket holds once all three steps have been applied.
Configured ==
  [userTimeout |-> 30, keepAlive |-> TRUE, keepAlivePeriod |-> 3]

\* The state a socket that held s0 is in after one call of SetTimeouts
\* whose three steps succeed.
AfterSingle(s0) ==
  SetKeepAlivePeriod(SetKeepAlive(SetUserTimeout(s0, 30, platform), TRUE), 3)

\* Socket s holds what the given step of caller p wrote when it succeeded.
OptionSet(p, s, step) ==
  IF step = "userTimeout" THEN s.userTimeout = AfterSingle(before[p]).userTimeout
  ELSE IF step = "keepAlive" THEN s.keepAlive = TRUE
  ELSE s.keepAlivePeriod = 3

Succeeded(p) ==
  /\ pc[p] = "done"
  /\ Len(trace[p]) = 3
  /\ \A i \in 1 .. 3 : trace[p][i].err = Nil

FailedAt(p, step) ==
  /\ pc[p] = "done"
  /\ trace[p][Len(trace[p])].step = step
  /\ trace[p][Len(trace[p])].err # Nil

\* ExtractConn has acted for caller p.
Extracted(p) == pc[p] # "idle"

SecureOverRaw(c) ==
  c.type = "tls.Conn" /\ ~c.isNil /\ c.innerType = "TCPConn"

SecureOverOther(c) ==
  c.type = "tls.Conn" /\ ~c.isNil /\ c.innerType # "TCPConn"

\* C1: SetTimeouts attempts its steps in the order user-timeout,
\* keepalive-enable, keepalive-period; no step is attempted after one that
\* failed; once it has returned, the returned error is that of the first
\* (and only) failing step, or nil when all three were attempted and none
\* failed; and the options written by the steps that succeeded stay written.
C1_FirstFailureStops ==
  \A p \in Procs :
    /\ Len(trace[p]) <= 3
    /\ \A i \in 1 .. Len(trace[p]) : trace[p][i].step = Steps[i]
    /\ \A i \in 1 .. Len(trace[p]) :
         trace[p][i].err # Nil => i = Len(trace[p]) /\ pc[p] = "done"
    /\ pc[p] = "done" =>
         /\ Len(trace[p]) >= 1
         /\ ret[p] = trace[p][Len(trace[p])].err
         /\ ret[p] = Nil => Len(trace[p]) = 3
    /\ \A i \in 1 .. Len(trace[p]) :
         trace[p][i].err = Nil => OptionSet(p, sock[hnd[p]], Steps[i])

\* A call that failed at keepalive-enable: the period step was not
\* attempted and the period is untouched, the user timeout stays written.
C1_Witness ==
  \E p \in Procs :
    /\ platform = "linux"
    /\ FailedAt(p, "keepAlive")
    /\ Len(trace[p]) = 2
    /\ before[p] = [userTimeout |-> 0, keepAlive |-> FALSE, keepAlivePeriod |-> 15]
    /\ sock[hnd[p]] = [userTimeout |-> 30, keepAlive |-> FALSE, keepAlivePeriod |-> 15]

\* C2, as stated: when all three steps of SetTimeouts succeed it returns
\* nil and the handle's socket has user timeout 30 s, keepalive on and
\* keepalive period 3 s, whatever the socket held before.
C2_AllSucceedConfigures ==
  \A p \in Procs :
    Succeeded(p) => ret[p] = Nil /\ sock[hnd[p]] = Configured

\* C2, amended: when all three steps of SetTimeouts succeed it returns nil
\* and the handle's socket has keepalive on and keepalive period 3 s,
\* whatever it held before; its user timeout is 30 s on a platform that has
\* the user-timeout option and is what it was before the call on a platform
\* where SetUserTimeout does nothing.
C2_AllSucceedConfiguresPlatform ==
  \A p \in Procs :
    Succeeded(p) =>
      /\ ret[p] = Nil
      /\ sock[hnd[p]].keepAlive = TRUE
      /\ sock[hnd[p]].keepAlivePeriod = 3
      /\ platform = "linux" => sock[hnd[p]].userTimeout = 30
      /\ platform # "linux" => sock[hnd[p]].userTimeout = before[p].userTimeout

C2_Witness ==
  \E p \in Procs :
    /\ platform = "linux"
    /\ Succeeded(p)
    /\ before[p] = [userTimeout |-> 0, keepAlive |-> FALSE, keepAlivePeriod |-> 15]
    /\ sock[hnd[p]] = Configured

\* C3: ExtractConn on a connection that is not a *tls.Conn returns the
\* "not a tls.Conn" error and no handle, does not panic, and changes no
\* socket's options.
C3_NotSecureTransport ==
  [][\A p \in Procs :
       (pc[p] = "idle" /\ pc'[p] # "idle" /\ arg'[p].type # "tls.Conn") =>
         /\ pc'[p] # "panicked"
         /\ res'[p] = [outcome |-> "returned", handle |-> NoSock,
                       err |-> ErrNotTLS]
         /\ sock' = sock]_vars

C3_Witness ==
  \E p \in Procs :
    /\ pc[p] = "extracted"
    /\ arg[p].type = "TCPConn"
    /\ res[p].err = ErrNotTLS
    /\ res[p].handle = NoSock

\* C4: ExtractConn on a *tls.Conn over a *net.TCPConn returns, without
\* error, the very *net.TCPConn the connection owns: the handle SetTimeouts
\* then works on is the connection's own socket, on which every option the
\* call has written is observable.
C4_SameHandle ==
  \A p \in Procs :
    (Extracted(p) /\ SecureOverRaw(arg[p])) =>
      /\ res[p] = [outcome |-> "returned", handle |-> arg[p].sock,
                   err |-> NoErr]
      /\ Len(trace[p]) >= 1 => hnd[p] = arg[p].sock
      /\ \A i \in 1 .. Len(trace[p]) :
           trace[p][i].err = Nil => OptionSet(p, sock[arg[p].sock], Steps[i])

C4_Witness ==
  \E p \in Procs :
    /\ platform = "linux"
    /\ SecureOverRaw(arg[p])
    /\ Succeeded(p)
    /\ before[p] # Configured
    /\ sock[arg[p].sock] = Configured

\* C5, as stated: the error SetTimeouts returns tells which step failed,
\* that is, two calls never return the same error after failing at
\* different steps.
C5_ErrorIdentifiesStep ==
  \A p, q \in Procs :
    \A s1, s2 \in {"userTimeout", "keepAlive", "keepAlivePeriod"} :
      (FailedAt(p, s1) /\ FailedAt(q, s2) /\ ret[p] = ret[q]) => s1 = s2

\* C5, amended: the error SetTimeouts returns is the error value of the
\* failing step's call, unchanged and with nothing added.
C5_ErrorReturnedVerbatim ==
  \A p \in Procs :
    \A s \in {"userTimeout", "keepAlive", "keepAlivePeriod"} :
      FailedAt(p, s) =>
        /\ ret[p] = trace[p][Len(trace[p])].err
        /\ ret[p] \in StepErrors(s)

\* Two calls that failed at different steps and returned equal errors.
C5_Witness ==
  \E p, q \in Procs :
    /\ FailedAt(p, "keepAlive")
    /\ FailedAt(q, "keepAlivePeriod")
    /\ ret[p] = ret[q]
    /\ ret[p] = [op |-> "set", errno |-> "EBADF"]

C8_ConcurrentSameResult ==
  \A p, q \in Procs :
    (p # q /\ Succeeded(p) /\ Succeeded(q) /\ hnd[p] = hnd[q]) =>
      /\ ret[p] = Nil
      /\ ret[q] = Nil
      /\ sock[hnd[p]] = Configured

\* C8, amended: when two calls of SetTimeouts on the same handle have both
\* returned nil, however their steps were interleaved, the socket holds what
\* one successful call leaves on that platform: keepalive on, period 3 s,
\* and user timeout 30 s where the platform has the option (the user
\* timeout it had before where SetUserTimeout does nothing).
C8_ConcurrentSameAsSingle ==
  \A p, q \in Procs :
    (p # q /\ Succeeded(p) /\ Succeeded(q) /\ hnd[p] = hnd[q]) =>
      /\ ret[p] = Nil
      /\ ret[q] = Nil
      /\ sock[hnd[p]] = AfterSingle(before[p])
      /\ sock[hnd[p]] = AfterSingle(before[q])
      /\ platform = "linux" => sock[hnd[p]] = Configured

\* Two successful calls on one handle whose steps overlapped in time.
C8_Witness ==
  \E p, q \in Procs :
    /\ platform = "linux"
    /\ p # q
    /\ Succeeded(p)
    /\ Succeeded(q)
    /\ hnd[p] = hnd[q]
    /\ overlap
    /\ before[p] # Configured
    /\ before[q] # Configured
    /\ sock[hnd[p]] = Configured

(***************************************************************************)
(* Properties of the housekeeping task, checked under TokenSpec.           *)
(***************************************************************************)
\* The registered token operations whose expiry had passed when the
\* registry was filtered.
ExpiredSet ==
  {i \in OpIds :
     /\ registry[i].type \in {"ClusterJoinToken", "CertificateAddToken"}
     /\ registry[i].expiresAt.kind = "time"
     /\ registry[i].expiresAt.at < scanTime}

AttemptedSet == {attempts[i].id : i \in 1 .. Len(attempts)}

\* The run is over: autoRemoveExpiredTokens has returned and opRun, if it
\* was started, has returned too.
RunOver == tpc = "returned" /\ hk # "running"

\* C9, as stated: in one run, cancel is attempted on exactly the expired
\* token operations.
C9_CancelsExactlyExpired ==
  RunOver => AttemptedSet = ExpiredSet

\* C9, amended: cancel is attempted only on expired token operations, at
\* most once each and only inside the one housekeeping operation; when that
\* operation was created and started and its run function has finished,
\* cancel was attempted on exactly the expired token operations; when
\* creating or starting it failed, no cancel is attempted; when no token
\* operation has expired, no housekeeping operation is created.
C9_CancelsExpiredWhenStarted ==
  tpc # "idle" =>
    /\ AttemptedSet \subseteq ExpiredSet
    /\ Cardinality(AttemptedSet) = Len(attempts)
    /\ created <= 1
    /\ attempts # <<>> => created = 1 /\ hk \in {"running", "success"}
    /\ hk = "success" => AttemptedSet = ExpiredSet
    /\ tret \in {"create failed", "start failed"} => attempts = <<>>
    /\ ExpiredSet = {} => created = 0 /\ tpc = "returned" /\ tret = "nil"
    /\ \A i \in OpIds :
         registry[i].status = "cancelled" => i \in ExpiredSet

\* A finished run that cancelled an expired token operation and left
\* another operation alone.
C9_Witness ==
  /\ RunOver
  /\ hk = "success"
  /\ ExpiredSet # {}
  /\ ExpiredSet # OpIds
  /\ \A i \in ExpiredSet : registry[i].status = "cancelled"

\* C10: a Cancel that fails does not stop opRun: it goes on to the
\* remaining expired token operations in order, never ends in failure,
\* returns nil once Cancel was attempted on all of them, and
\* autoRemoveExpiredTokens returns nil once the housekeeping operation was
\* started, whatever the Cancel calls yielded.
C10_CancelFailureIgnored ==
  /\ hk # "failure"
  /\ Len(attempts) <= Len(expiredTokenOps)
  /\ \A i \in 1 .. Len(attempts) : attempts[i].id = expiredTokenOps[i]
  /\ hk = "success" =>
       Len(attempts) = Len(expiredTokenOps) /\ opRunRet = "nil"
  /\ hk = "running" => opRunRet = "none"
  /\ (tpc = "returned" /\ hk \in {"running", "success"}) => tret = "nil"

\* A finished run whose first Cancel failed and whose second was attempted.
C10_Witness ==
  /\ RunOver
  /\ hk = "success"
  /\ opRunRet = "nil"
  /\ tret = "nil"
  /\ Len(attempts) = 2
  /\ ~attempts[1].ok

====
